---- MODULE Spec2Model ----
(***************************************************************************)
(* Model of the (m, n, k) noughts and crosses engine NoughtsAndCrosses     *)
(* (src/game/app/game_base_class.py) and of its minimax subclass           *)
(* (src/automation/minimax/minimax_ai.py).                                 *)
(*                                                                         *)
(* The engine object is the state; every public method is one action.  A   *)
(* call's outcome (returned value or raised exception) is kept in the      *)
(* variable result.                                                         *)
(***************************************************************************)
EXTENDS Integers, Sequences, FiniteSets, TLC

VARIABLES engine, game_rows_m, game_cols_n, win_length_k, starting_player_value,
          draw_count, playing_grid, player_x_wins, player_o_wins,
          maximising_player, result, last_index, last_marking, fixed

vars == <<engine, game_rows_m, game_cols_n, win_length_k, starting_player_value,
          draw_count, playing_grid, player_x_wins, player_o_wins,
          maximising_player, result, last_index, last_marking, fixed>>

(***************************************************************************)
(* Bounds of the exploration.                                              *)
(***************************************************************************)
\* boards of the engine runs have at most MaxCells cells, win lengths go up to
\* MaxK, draw counts up to MaxCount; the boards the detector is applied to as
\* a function have at most FnCells cells and win lengths up to FnK
MaxCells == 3
MaxK == 2
MaxCount == 1
FnCells == 6
FnK == 3
\* the evaluator is asked about search depths up to MaxDepth
MaxDepth == 1

(***************************************************************************)
(* Python values.                                                          *)
(***************************************************************************)
\* Python's None, kept as a number so that it compares with the enum values
NoneValue == 99

\* BoardMarking enum
BoardMarkingX == 1
BoardMarkingO == -1
BoardMarkingValues == {BoardMarkingX, BoardMarkingO}

\* StartingPlayer enum
PLAYER_X == 1
RANDOM == 0
PLAYER_O == -1

\* exceptions a call can end with
NoExc == "none"
ValueError == "ValueError"
TypeError == "TypeError"

\* returned Python values: a normal return, or a raised exception
Return(v) == [exc |-> NoExc, ret |-> v]
Raise(e) == [exc |-> e, ret |-> NoneValue]

(***************************************************************************)
(* Grids: numpy arrays of shape (m, n), indexed from 0.                    *)
(***************************************************************************)
CellsOf(m, n) == (0 .. (m - 1)) \X (0 .. (n - 1))

\* np.zeros(shape=(m, n))
ZeroGrid(m, n) == [c \in CellsOf(m, n) |-> 0]

RECURSIVE SumOver(_, _)
SumOver(grid, cells) ==
    IF cells = {} THEN 0
    ELSE LET c == CHOOSE x \in cells : TRUE
         IN grid[c] + SumOver(grid, cells \ {c})

\* playing_grid.sum().sum()
GridSum(grid) == SumOver(grid, DOMAIN grid)

GridEmpty(grid) == \A c \in DOMAIN grid : grid[c] = 0

Abs(x) == IF x < 0 THEN -x ELSE x

\* BoardMarking(v).value : the enum lookup raises ValueError off the enum
BoardMarking(v) ==
    IF v \in BoardMarkingValues THEN Return(v) ELSE Raise(ValueError)

\* variants of get_player_turn: one that never alternates, one that reads the
\* parity of the grid the wrong way round
get_player_turn_never_alternates(grid) == BoardMarking(starting_player_value)

get_player_turn_parity_swapped(grid) ==
    IF GridSum(grid) = 0
    THEN IF starting_player_value = NoneValue
         THEN Raise(TypeError)
         ELSE BoardMarking(-starting_player_value)
    ELSE BoardMarking(starting_player_value)

(***************************************************************************)
(* NoughtsAndCrosses.get_player_turn                                       *)
(***************************************************************************)
get_player_turn(grid) ==
    IF GridSum(grid) # 0
    THEN IF starting_player_value = NoneValue
         THEN Raise(TypeError)      \* unary minus of None
         ELSE BoardMarking(-starting_player_value)
    ELSE BoardMarking(starting_player_value)

\* variants of mark_board: one that drops a move on an occupied cell without
\* raising, one that marks without looking at the cell
mark_board_drops_silently(marking_index, grid) ==
    IF grid[marking_index] = 0
    THEN LET marking == get_player_turn(grid)
         IN IF marking.exc # NoExc
            THEN [exc |-> marking.exc, grid |-> grid]
            ELSE [exc |-> NoExc,
                  grid |-> [grid EXCEPT ![marking_index] = marking.ret]]
    ELSE [exc |-> NoExc, grid |-> grid]

mark_board_overwrites(marking_index, grid) ==
    LET marking == get_player_turn(grid)
    IN IF marking.exc # NoExc
       THEN [exc |-> marking.exc, grid |-> grid]
       ELSE [exc |-> NoExc,
             grid |-> [grid EXCEPT ![marking_index] = marking.ret]]

(***************************************************************************)
(* NoughtsAndCrosses.mark_board, as a function of the grid it is given:    *)
(* the outcome and the grid after the call.                                *)
(***************************************************************************)
mark_board(marking_index, grid) ==
    IF grid[marking_index] = 0
    THEN LET marking == get_player_turn(grid)
         IN IF marking.exc # NoExc
            THEN [exc |-> marking.exc, grid |-> grid]
            ELSE [exc |-> NoExc,
                  grid |-> [grid EXCEPT ![marking_index] = marking.ret]]
    ELSE [exc |-> ValueError, grid |-> grid]

(***************************************************************************)
(* NoughtsAndCrosses._get_search_directions                                *)
(***************************************************************************)
\* variant that looks along (1,1) before (1,-1)
search_directions_south_east_first == << <<1, 0>>, <<0, 1>>, <<1, 1>>, <<1, -1>> >>

search_directions == << <<1, 0>>, <<0, 1>>, <<1, -1>>, <<1, 1>> >>

RECURSIVE SumSeq(_, _, _)
SumSeq(arr, from, to) ==
    IF from > to THEN 0 ELSE arr[from] + SumSeq(arr, from + 1, to)

\* variant of streak_lengths that forgets the absolute value
streak_lengths_signed(arr, k) ==
    IF Len(arr) >= k
    THEN [i \in 1 .. (Len(arr) - k + 1) |-> SumSeq(arr, i, i + k - 1)]
    ELSE [i \in 1 .. (k - Len(arr) + 1) |-> SumSeq(arr, 1, Len(arr))]

\* abs(np.convolve(arr, np.ones(k), mode="valid")) for a non-empty arr: the
\* window sums when arr is at least k long; when arr is shorter numpy swaps
\* the operands and slides arr along the kernel, giving k - len + 1 copies
\* of the sum of arr
streak_lengths(arr, k) ==
    IF Len(arr) >= k
    THEN [i \in 1 .. (Len(arr) - k + 1) |-> Abs(SumSeq(arr, i, i + k - 1))]
    ELSE [i \in 1 .. (k - Len(arr) + 1) |-> Abs(SumSeq(arr, 1, Len(arr)))]

\* Python's max() of a non-empty sequence
SeqMax(seq) == CHOOSE x \in {seq[i] : i \in DOMAIN seq} :
                   \A i \in DOMAIN seq : seq[i] <= x

\* np.where(seq == v) ... .item(0): the first position holding v (from 0)
FirstWhere(seq, v) ==
    (CHOOSE i \in DOMAIN seq : seq[i] = v /\ \A j \in 1 .. (i - 1) : seq[j] # v) - 1

\* the indexes from (k-1) steps before to (k-1) steps after the last move
unfiltered_indexes_to_search(last_played_index, search_direction, k) ==
    [i \in 1 .. (2 * k - 1) |->
        <<last_played_index[1] + (i - k) * search_direction[1],
          last_played_index[2] + (i - k) * search_direction[2]>>]

InGrid(grid, search_index) == search_index \in DOMAIN grid

valid_indexes_to_search(last_played_index, search_direction, k, grid) ==
    SelectSeq(unfiltered_indexes_to_search(last_played_index, search_direction, k),
              LAMBDA search_index : InGrid(grid, search_index))

NoLocation == <<>>

(***************************************************************************)
(* NoughtsAndCrosses.win_check_and_location_search: the loop over the      *)
(* search directions from direction number d on                            *)
(***************************************************************************)
RECURSIVE win_search_from(_, _, _, _, _)
win_search_from(d, last_played_index, get_win_location, grid, k) ==
    IF d > Len(search_directions)
    THEN Return(<<FALSE, NoLocation>>)
    ELSE LET valid == valid_indexes_to_search(last_played_index,
                                              search_directions[d], k, grid)
             array_to_search == [i \in 1 .. Len(valid) |-> grid[valid[i]]]
         IN IF Len(array_to_search) = 0 \/ k = 0
            THEN Raise(ValueError)     \* np.convolve of an empty array
            ELSE LET streaks == streak_lengths(array_to_search, k)
                     winning_streak_found == SeqMax(streaks) = k
                 IN IF winning_streak_found /\ ~get_win_location
                    THEN Return(<<TRUE, NoLocation>>)
                    ELSE IF winning_streak_found /\ get_win_location
                    THEN LET start == FirstWhere(streaks, k)
                         IN Return(<<TRUE, SubSeq(valid, start + 1,
                                        IF start + k <= Len(valid)
                                        THEN start + k ELSE Len(valid))>>)
                    ELSE win_search_from(d + 1, last_played_index,
                                         get_win_location, grid, k)

win_check_and_location_search(last_played_index, get_win_location, grid) ==
    win_search_from(1, last_played_index, get_win_location, grid, win_length_k)

(***************************************************************************)
(* The whole-board search.                                                 *)
(***************************************************************************)
Min(a, b) == IF a < b THEN a ELSE b

\* list(range(a, b))
range(a, b) == [i \in 1 .. (b - a) |-> a + i - 1]

\* np.diagonal(grid, offset) of the game_rows_m x game_cols_n grid
np_diagonal(grid, offset) ==
    IF offset >= 0
    THEN [i \in 1 .. Min(game_rows_m, game_cols_n - offset) |->
             grid[<<i - 1, i - 1 + offset>>]]
    ELSE [i \in 1 .. Min(game_rows_m + offset, game_cols_n) |->
             grid[<<i - 1 - offset, i - 1>>]]

\* np.flipud(grid)
np_flipud(grid) == [c \in DOMAIN grid |-> grid[<<game_rows_m - 1 - c[1], c[2]>>]]

\* NoughtsAndCrosses._search_array_list_for_win: the loop from array number i
RECURSIVE search_array_list_from(_, _)
search_array_list_from(i, array_list) ==
    IF i > Len(array_list)
    THEN Return(FALSE)
    ELSE IF Len(array_list[i]) = 0
    THEN Raise(ValueError)              \* np.convolve of an empty array
    ELSE IF SeqMax(streak_lengths(array_list[i], win_length_k)) = win_length_k
    THEN Return(TRUE)
    ELSE search_array_list_from(i + 1, array_list)

search_array_list_for_win(array_list) == search_array_list_from(1, array_list)

get_row_arrays(grid) ==
    [row_index \in 1 .. game_rows_m |->
        [j \in 1 .. game_cols_n |-> grid[<<row_index - 1, j - 1>>]]]

get_col_arrays(grid) ==
    [col_index \in 1 .. game_cols_n |->
        [i \in 1 .. game_rows_m |-> grid[<<i - 1, col_index - 1>>]]]

get_south_east_diagonal_arrays(grid) ==
    LET diagonal_offset_list == range(-(game_rows_m - win_length_k), 0)
                                \o range(0, game_cols_n - win_length_k + 1)
    IN [i \in 1 .. Len(diagonal_offset_list) |->
           np_diagonal(grid, diagonal_offset_list[i])]

\* variant that forgets to flip the grid
get_north_east_diagonal_arrays_unflipped(grid) == get_south_east_diagonal_arrays(grid)

get_north_east_diagonal_arrays(grid) ==
    get_south_east_diagonal_arrays(np_flipud(grid))

\* NoughtsAndCrosses._whole_board_search: the sum of the four booleans
whole_board_search(grid) ==
    LET row_win == search_array_list_for_win(get_row_arrays(grid))
        col_win == search_array_list_for_win(get_col_arrays(grid))
        south_east_win ==
            search_array_list_for_win(get_south_east_diagonal_arrays(grid))
        north_east_win ==
            search_array_list_for_win(get_north_east_diagonal_arrays(grid))
        count(win) == IF win.ret THEN 1 ELSE 0
    IN IF row_win.exc # NoExc THEN Raise(row_win.exc)
       ELSE IF col_win.exc # NoExc THEN Raise(col_win.exc)
       ELSE IF south_east_win.exc # NoExc THEN Raise(south_east_win.exc)
       ELSE IF north_east_win.exc # NoExc THEN Raise(north_east_win.exc)
       ELSE Return(count(row_win) + count(col_win) + count(south_east_win)
                   + count(north_east_win))

\* variants of get_winning_player: one that names the player to move next,
\* one that returns None instead of raising
get_winning_player_next_mover(winning_game, grid) ==
    LET turn == get_player_turn(grid)
    IN IF turn.exc # NoExc
       THEN Raise(turn.exc)
       ELSE IF winning_game /\ turn.ret = BoardMarkingX
       THEN Return("player_x")
       ELSE IF winning_game /\ turn.ret = BoardMarkingO
       THEN Return("player_o")
       ELSE Raise(ValueError)

get_winning_player_returns_none(winning_game, grid) ==
    LET turn == get_player_turn(grid)
    IN IF turn.exc # NoExc
       THEN Raise(turn.exc)
       ELSE LET previous_mark_made_by == -turn.ret
            IN IF winning_game /\ previous_mark_made_by = BoardMarkingX
               THEN Return("player_x")
               ELSE IF winning_game /\ previous_mark_made_by = BoardMarkingO
               THEN Return("player_o")
               ELSE Return("None")

(***************************************************************************)
(* NoughtsAndCrosses.get_winning_player                                    *)
(***************************************************************************)
get_winning_player(winning_game, grid) ==
    LET turn == get_player_turn(grid)
    IN IF turn.exc # NoExc
       THEN Raise(turn.exc)
       ELSE LET previous_mark_made_by == -turn.ret
            IN IF winning_game /\ previous_mark_made_by = BoardMarkingX
               THEN Return("player_x")
               ELSE IF winning_game /\ previous_mark_made_by = BoardMarkingO
               THEN Return("player_o")
               ELSE Raise(ValueError)

\* a call of get_winning_player that leaves out the positional winning_game:
\* Python raises TypeError before the body runs
get_winning_player_without_winning_game == Raise(TypeError)

(***************************************************************************)
(* NoughtsAndCrosses.check_for_draw : np.all(playing_grid != 0)            *)
(***************************************************************************)
\* variant with np.any in the place of np.all
check_for_draw_any_marked(grid) == \E c \in DOMAIN grid : grid[c] # 0

check_for_draw(grid) == \A c \in DOMAIN grid : grid[c] # 0

(***************************************************************************)
(* TerminalScore                                                           *)
(***************************************************************************)
MAX_WIN == 1000
MAX_LOSS == -1000
DRAW == 0

\* math.inf, as a number above every score
Infinity == 2 * MAX_WIN

(***************************************************************************)
(* NoughtsAndCrossesMinimax.is_terminal                                    *)
(***************************************************************************)
is_terminal(grid) ==
    LET winner == get_winning_player_without_winning_game
    IN IF winner.exc # NoExc
       THEN Raise(winner.exc)
       ELSE Return(winner.ret # "None" \/ check_for_draw(grid))

(***************************************************************************)
(* NoughtsAndCrossesMinimax.evaluate_board_to_maximising_player            *)
(***************************************************************************)
evaluate_board_to_maximising_player(grid, search_depth) ==
    LET winning_player == get_winning_player_without_winning_game
    IN IF winning_player.exc # NoExc
       THEN Raise(winning_player.exc)
       ELSE IF winning_player.ret # "None"
       THEN IF winning_player.ret = maximising_player
            THEN Return(MAX_WIN - search_depth)
            ELSE Return(MAX_LOSS + search_depth)
       ELSE IF check_for_draw(playing_grid)
       THEN Return(DRAW)
       ELSE Raise(ValueError)

(***************************************************************************)
(* NoughtsAndCrossesMinimax.get_available_cell_indices (as a set: the      *)
(* list is shuffled)                                                       *)
(***************************************************************************)
get_available_cell_indices(grid) == {c \in DOMAIN grid : grid[c] = 0}

\* mark_board(row_index=.., col_index=.., playing_grid=..): mark_board has no
\* such keyword parameters, Python raises TypeError before the body runs
mark_board_by_row_and_col == Raise(TypeError)

(***************************************************************************)
(* NoughtsAndCrossesMinimax.minimax.  The first candidate move of either   *)
(* loop ends the call with the TypeError of mark_board_by_row_and_col, so  *)
(* no recursive call is ever reached.                                      *)
(***************************************************************************)
minimax(grid, search_depth, maximisers_move, alpha, beta) ==
    LET terminal == is_terminal(grid)
    IN IF terminal.exc # NoExc
       THEN Raise(terminal.exc)
       ELSE IF terminal.ret
       THEN evaluate_board_to_maximising_player(grid, search_depth)
       ELSE IF get_available_cell_indices(grid) = {}
       THEN Return(NoneValue)              \* best_move is still None
       ELSE Raise(mark_board_by_row_and_col.exc)

(***************************************************************************)
(* State after the module is loaded: the two Player objects exist, the     *)
(* engine is not constructed yet.                                          *)
(***************************************************************************)
NoIndex == <<>>

\* what the caller of a method sees: the arguments it passed (index, flag,
\* value), the exception raised if any, and the returned value under the
\* field of its Python type
Outcome(op, exc) ==
    [op |-> op, exc |-> exc, index |-> NoIndex, flag |-> FALSE, value |-> NoneValue,
     ret_value |-> NoneValue, ret_flag |-> FALSE, ret_player |-> "None",
     ret_grid |-> ZeroGrid(0, 0), ret_location |-> NoLocation]

Init ==
    /\ engine = "new"
    /\ game_rows_m = 0
    /\ game_cols_n = 0
    /\ win_length_k = 0
    /\ starting_player_value = NoneValue
    /\ draw_count = 0
    /\ playing_grid = ZeroGrid(0, 0)
    /\ player_x_wins = 0        \* Player(..., active_game_win_count=0)
    /\ player_o_wins = 0
    /\ maximising_player = "player_o"
    /\ result = Outcome("none", NoExc)
    /\ last_index = NoIndex
    /\ last_marking = 0
    /\ fixed = TRUE

Players == <<player_x_wins, player_o_wins, maximising_player>>
Config == <<game_rows_m, game_cols_n, win_length_k>>
Ghost == <<last_index, last_marking, fixed>>

(***************************************************************************)
(* NoughtsAndCrosses.__init__                                              *)
(***************************************************************************)
Construct(m, n, k, spv, dc) ==
    /\ engine = "new"
    /\ IF m < 0 \/ n < 0
       THEN \* np.zeros raises ValueError("negative dimensions are not allowed")
            /\ engine' = "failed"
            /\ result' = Outcome("init", ValueError)
            /\ game_rows_m' = m
            /\ game_cols_n' = n
            /\ win_length_k' = k
            /\ starting_player_value' = spv
            /\ draw_count' = dc
            /\ UNCHANGED playing_grid
       ELSE /\ engine' = "ready"
            /\ result' = Outcome("init", NoExc)
            /\ game_rows_m' = m
            /\ game_cols_n' = n
            /\ win_length_k' = k
            /\ starting_player_value' = spv
            /\ draw_count' = dc
            /\ playing_grid' = ZeroGrid(m, n)
    /\ UNCHANGED <<Players, Ghost>>

(***************************************************************************)
(* NoughtsAndCrosses.set_starting_player                                   *)
(***************************************************************************)
SetStartingPlayer(arg) ==
    /\ engine = "ready"
    /\ LET value == IF arg = NoneValue THEN starting_player_value ELSE arg
       IN IF value = RANDOM \/ starting_player_value = NoneValue
          THEN \* np.random.choice([X, O])
               /\ \E choice \in BoardMarkingValues : starting_player_value' = choice
               /\ result' = [Outcome("set_starting_player", NoExc) EXCEPT !.value = arg]
          ELSE IF value = PLAYER_X
          THEN /\ starting_player_value' = BoardMarkingX
               /\ result' = [Outcome("set_starting_player", NoExc) EXCEPT !.value = arg]
          ELSE IF value = PLAYER_O
          THEN /\ starting_player_value' = BoardMarkingO
               /\ result' = [Outcome("set_starting_player", NoExc) EXCEPT !.value = arg]
          ELSE /\ starting_player_value' = starting_player_value
               /\ result' = [Outcome("set_starting_player", ValueError)
                               EXCEPT !.value = arg]
    /\ fixed' = (fixed /\ (GridEmpty(playing_grid)
                           \/ starting_player_value' = starting_player_value))
    /\ UNCHANGED <<engine, Config, draw_count, playing_grid, Players, last_index, last_marking>>

(***************************************************************************)
(* mark_board(marking_index) on the live grid                              *)
(***************************************************************************)
MarkBoard(marking_index) ==
    /\ engine = "ready"
    /\ marking_index \in DOMAIN playing_grid
    /\ LET out == mark_board(marking_index, playing_grid)
       IN /\ playing_grid' = out.grid
          /\ result' = [Outcome("mark_board", out.exc) EXCEPT !.index = marking_index]
          /\ IF out.exc = NoExc
             THEN /\ last_index' = marking_index
                  /\ last_marking' = out.grid[marking_index]
             ELSE UNCHANGED <<last_index, last_marking>>
    /\ UNCHANGED <<engine, Config, starting_player_value, draw_count, Players, fixed>>

\* variant of reset_game_board that starts the draw counter again as well
ResetGameBoardAndDrawCount ==
    /\ engine = "ready"
    /\ playing_grid' = ZeroGrid(game_rows_m, game_cols_n)
    /\ draw_count' = 0
    /\ result' = Outcome("reset_game_board", NoExc)
    /\ last_index' = NoIndex
    /\ last_marking' = 0
    /\ fixed' = TRUE
    /\ UNCHANGED <<engine, Config, starting_player_value, Players>>

(***************************************************************************)
(* NoughtsAndCrosses.reset_game_board                                      *)
(***************************************************************************)
ResetGameBoard ==
    /\ engine = "ready"
    /\ playing_grid' = ZeroGrid(game_rows_m, game_cols_n)
    /\ result' = Outcome("reset_game_board", NoExc)
    /\ last_index' = NoIndex
    /\ last_marking' = 0
    /\ fixed' = TRUE
    /\ UNCHANGED <<engine, Config, starting_player_value, draw_count, Players>>

(***************************************************************************)
(* mark_board(marking_index, playing_grid=copy) on a copy of the live grid *)
(* (the way the search marks hypothetical boards); the copy after the call *)
(* is kept in the outcome.                                                 *)
(***************************************************************************)
MarkBoardCopy(marking_index) ==
    /\ engine = "ready"
    /\ marking_index \in DOMAIN playing_grid
    /\ LET playing_grid_copy == playing_grid
           out == mark_board(marking_index, playing_grid_copy)
       IN result' = [Outcome("mark_board_copy", out.exc)
                        EXCEPT !.index = marking_index, !.ret_grid = out.grid]
    /\ UNCHANGED <<engine, Config, starting_player_value, draw_count, playing_grid,
                   Players, Ghost>>

(***************************************************************************)
(* The queries on the live grid.                                           *)
(***************************************************************************)
Query(outcome) ==
    /\ engine = "ready"
    /\ result' = outcome
    /\ UNCHANGED <<engine, Config, starting_player_value, draw_count, playing_grid,
                   Players, Ghost>>

GetPlayerTurn ==
    LET out == get_player_turn(playing_grid)
    IN Query([Outcome("get_player_turn", out.exc) EXCEPT !.ret_value = out.ret])

WinCheck(last_played_index, get_win_location) ==
    /\ last_played_index \in DOMAIN playing_grid
    /\ LET out == win_check_and_location_search(last_played_index, get_win_location,
                                                playing_grid)
       IN Query([Outcome("win_check_and_location_search", out.exc)
                   EXCEPT !.index = last_played_index,
                          !.flag = get_win_location,
                          !.ret_flag = (out.exc = NoExc /\ out.ret[1]),
                          !.ret_location = IF out.exc = NoExc THEN out.ret[2]
                                           ELSE NoLocation])

GetWinningPlayer(winning_game) ==
    LET out == get_winning_player(winning_game, playing_grid)
    IN Query([Outcome("get_winning_player", out.exc)
                EXCEPT !.flag = winning_game,
                       !.ret_player = IF out.exc = NoExc THEN out.ret ELSE "None"])

CheckForDraw ==
    Query([Outcome("check_for_draw", NoExc)
             EXCEPT !.ret_flag = check_for_draw(playing_grid)])

IsTerminal ==
    LET out == is_terminal(playing_grid)
    IN Query([Outcome("is_terminal", out.exc)
                EXCEPT !.ret_flag = (out.exc = NoExc /\ out.ret)])

EvaluateBoard(search_depth) ==
    LET out == evaluate_board_to_maximising_player(playing_grid, search_depth)
    IN Query([Outcome("evaluate_board_to_maximising_player", out.exc)
                EXCEPT !.value = search_depth, !.ret_value = out.ret])

\* minimax(playing_grid.copy(), 0, maximisers_move) with the default alpha, beta
Minimax(maximisers_move) ==
    LET out == minimax(playing_grid, 0, maximisers_move, -Infinity, Infinity)
    IN Query([Outcome("minimax", out.exc)
                EXCEPT !.flag = maximisers_move, !.ret_value = out.ret])

WholeBoardSearch ==
    LET out == whole_board_search(playing_grid)
    IN Query([Outcome("whole_board_search", out.exc) EXCEPT !.ret_value = out.ret])

\* evaluate_board_to_maximising_player(playing_grid=copy, search_depth=d) on
\* the copy that the mark_board(marking_index, playing_grid=copy) before it
\* has marked: a hypothetical grid one move after the live one
EvaluateHypotheticalBoard(search_depth) ==
    /\ result.op = "mark_board_copy"
    /\ result.exc = NoExc
    /\ LET playing_grid_copy == result.ret_grid
           out == evaluate_board_to_maximising_player(playing_grid_copy, search_depth)
       IN Query([Outcome("evaluate_hypothetical_board", out.exc)
                   EXCEPT !.index = result.index,
                          !.value = search_depth,
                          !.ret_grid = playing_grid_copy,
                          !.ret_value = out.ret])

StartingPlayerArgs == {NoneValue, PLAYER_X, RANDOM, PLAYER_O, 2}

Next ==
    \/ /\ engine = "new"
       /\ \E m \in (-1) .. MaxCells, n \in (-1) .. MaxCells, k \in 1 .. MaxK,
             spv \in StartingPlayerArgs, dc \in {0, MaxCount} :
             /\ (m <= 0 \/ n <= 0 \/ m * n <= MaxCells)
             /\ Construct(m, n, k, spv, dc)
    \/ \E arg \in StartingPlayerArgs : SetStartingPlayer(arg)
    \/ \E idx \in DOMAIN playing_grid : MarkBoard(idx)
    \/ ResetGameBoard
    \/ \E idx \in DOMAIN playing_grid : MarkBoardCopy(idx)
    \/ GetPlayerTurn
    \/ \E get_win_location \in BOOLEAN : WinCheck(last_index, get_win_location)
    \/ \E winning_game \in BOOLEAN : GetWinningPlayer(winning_game)
    \/ CheckForDraw
    \/ IsTerminal
    \/ \E search_depth \in 0 .. MaxDepth : EvaluateBoard(search_depth)
    \/ \E maximisers_move \in BOOLEAN : Minimax(maximisers_move)

Spec == Init /\ [][Next]_vars

(***************************************************************************)
(* The detector as a pure function: an engine whose grid is any m x n      *)
(* array over {0, +1, -1} (an externally built board), asked about any     *)
(* in-bounds last_played_index.                                            *)
(***************************************************************************)
InitFn ==
    /\ engine = "ready"
    /\ game_rows_m \in 1 .. FnCells
    /\ game_cols_n \in 1 .. FnCells
    /\ game_rows_m * game_cols_n <= FnCells
    /\ win_length_k \in 1 .. FnK
    /\ starting_player_value = BoardMarkingX
    /\ draw_count = 0
    /\ playing_grid \in [CellsOf(game_rows_m, game_cols_n) -> {0, 1, -1}]
    /\ player_x_wins = 0
    /\ player_o_wins = 0
    /\ maximising_player = "player_o"
    /\ result = Outcome("none", NoExc)
    /\ last_index = NoIndex
    /\ last_marking = 0
    /\ fixed = FALSE

\* one call per drawn board
NextFn ==
    /\ result.op = "none"
    /\ \/ \E idx \in DOMAIN playing_grid, get_win_location \in BOOLEAN :
             WinCheck(idx, get_win_location)
       \/ CheckForDraw
       \/ WholeBoardSearch

SpecFn == InitFn /\ [][NextFn]_vars

(***************************************************************************)
(* The search on the board of the unit tests: the (3, 3, 3) engine of the  *)
(* fixture with the minimax player O maximising, a starting player and a   *)
(* playing_grid assigned by the test (any grid on which the two markings   *)
(* balance as they do after alternating turns).                            *)
(***************************************************************************)
InitSearch ==
    /\ engine = "ready"
    /\ game_rows_m = 3
    /\ game_cols_n = 3
    /\ win_length_k = 3
    /\ starting_player_value \in {PLAYER_O, PLAYER_X}
    /\ draw_count = 0
    /\ playing_grid \in {g \in [CellsOf(3, 3) -> {0, 1, -1}] :
                            GridSum(g) \in {0, starting_player_value}}
    /\ player_x_wins = 0
    /\ player_o_wins = 0
    /\ maximising_player = "player_o"
    /\ result = Outcome("none", NoExc)
    /\ last_index = NoIndex
    /\ last_marking = 0
    /\ fixed = FALSE

\* one call of the search per board, or one evaluation of a marked copy
NextSearch ==
    \/ /\ result.op = "none"
       /\ \E maximisers_move \in BOOLEAN : Minimax(maximisers_move)
    \/ /\ result.op = "none"
       /\ \E idx \in DOMAIN playing_grid : MarkBoardCopy(idx)
    \/ \E search_depth \in 1 .. MaxDepth : EvaluateHypotheticalBoard(search_depth)

SpecSearch == InitSearch /\ [][NextSearch]_vars

(***************************************************************************)
(* Vocabulary of the properties.                                           *)
(***************************************************************************)
Directions == {<<1, 0>>, <<0, 1>>, <<1, 1>>, <<1, -1>>}

Step(cell, d, j) == <<cell[1] + j * d[1], cell[2] + j * d[2]>>

\* the k cells from `first` along d are in the grid and hold the same marking
LineAt(grid, first, d, k) ==
    /\ \A j \in 0 .. (k - 1) : Step(first, d, j) \in DOMAIN grid
    /\ grid[first] # 0
    /\ \A j \in 0 .. (k - 1) : grid[Step(first, d, j)] = grid[first]

\* some line of k identical markings runs through cell
HasWinThrough(grid, cell, k) ==
    \E d \in Directions : \E s \in 0 .. (k - 1) : LineAt(grid, Step(cell, d, -s), d, k)

\* some line of k identical markings lies anywhere on the grid
HasWinAnywhere(grid, k) ==
    \E first \in DOMAIN grid : \E d \in Directions : LineAt(grid, first, d, k)

\* loc lists, in order, the k cells of a line of identical markings through cell
IsLineThrough(loc, grid, cell, k) ==
    /\ Len(loc) = k
    /\ \E d \in Directions : \E s \in 0 .. (k - 1) :
          /\ LineAt(grid, Step(cell, d, -s), d, k)
          /\ \A j \in 0 .. (k - 1) : loc[j + 1] = Step(cell, d, j - s)

CountOf(grid, v) == Cardinality({c \in DOMAIN grid : grid[c] = v})

Marked(grid) == Cardinality({c \in DOMAIN grid : grid[c] # 0})

PlayerOf(marking) == IF marking = BoardMarkingX THEN "player_x" ELSE "player_o"

(***************************************************************************)
(* C1: with the starting player fixed before the first move, the first     *)
(* successful mark on an empty live grid places the starting player's      *)
(* marking, every later one places the opposite of the marking placed by   *)
(* the mark before it, and get_player_turn then names the other marking.   *)
(***************************************************************************)
C1_TurnAlternation ==
    [][(result'.op = "mark_board" /\ result'.exc = NoExc /\ fixed)
        => /\ last_marking' = playing_grid'[result'.index]
           /\ last_marking' = (IF last_marking = 0 THEN starting_player_value
                               ELSE -last_marking)
           /\ get_player_turn(playing_grid) = Return(last_marking')
           /\ get_player_turn(playing_grid)' = Return(-last_marking')]_vars

C1_Witness ==
    /\ fixed
    /\ result.op = "mark_board"
    /\ result.exc = NoExc
    /\ Marked(playing_grid) >= 3
    /\ last_marking = starting_player_value

(***************************************************************************)
(* C2: on a grid reached by legal marks alone from a constructed or reset  *)
(* engine every cell is 0, +1 or -1 and (#+1) - (#-1) is 0 or the          *)
(* starting player's marking.                                              *)
(***************************************************************************)
C2_CellsAndParity ==
    (engine = "ready" /\ fixed)
        => /\ \A c \in DOMAIN playing_grid : playing_grid[c] \in {0, 1, -1}
           /\ CountOf(playing_grid, 1) - CountOf(playing_grid, -1)
                 \in {0, starting_player_value}

C2_Witness ==
    /\ engine = "ready"
    /\ fixed
    /\ starting_player_value = BoardMarkingO
    /\ Marked(playing_grid) = 3
    /\ CountOf(playing_grid, 1) - CountOf(playing_grid, -1) = -1

(***************************************************************************)
(* C3: mark_board on a non-empty cell raises and leaves the grid it was    *)
(* given (the live grid, or the copy) as it was.                           *)
(***************************************************************************)
C3_OccupiedCellRaises ==
    [][/\ (result'.op = "mark_board" /\ playing_grid[result'.index] # 0)
            => (result'.exc = ValueError /\ playing_grid' = playing_grid)
       /\ (result'.op = "mark_board_copy" /\ playing_grid[result'.index] # 0)
            => (result'.exc = ValueError /\ result'.ret_grid = playing_grid
                /\ playing_grid' = playing_grid)]_vars

C3_Witness ==
    /\ result.op = "mark_board"
    /\ result.exc = ValueError
    /\ playing_grid[result.index] # 0
    /\ Marked(playing_grid) >= 2

(***************************************************************************)
(* C4: a non-empty cell of the live grid keeps its value in every step     *)
(* that is not reset_game_board.                                           *)
(***************************************************************************)
C4_MarkedCellsStay ==
    [][result'.op # "reset_game_board"
        => \A c \in DOMAIN playing_grid :
              playing_grid[c] # 0
                 => (c \in DOMAIN playing_grid' /\ playing_grid'[c] = playing_grid[c])]_vars

C4_Witness ==
    /\ result.op = "minimax"
    /\ Marked(playing_grid) >= 2
    /\ CountOf(playing_grid, 1) = CountOf(playing_grid, -1)

(***************************************************************************)
(* C5: on a board reached by legal marks whose last mark completed a       *)
(* winning line, get_winning_player(True) returns the player owning the    *)
(* marking that the last mark placed.                                      *)
(***************************************************************************)
C5_WinnerIsLastMover ==
    (/\ result.op = "get_winning_player"
     /\ result.flag = TRUE
     /\ fixed
     /\ last_index # NoIndex
     /\ HasWinThrough(playing_grid, last_index, win_length_k))
        => (result.exc = NoExc /\ result.ret_player = PlayerOf(last_marking))

C5_Witness ==
    /\ result.op = "get_winning_player"
    /\ result.flag = TRUE
    /\ fixed
    /\ last_index # NoIndex
    /\ HasWinThrough(playing_grid, last_index, win_length_k)
    /\ win_length_k = 2
    /\ last_marking = BoardMarkingO
    /\ result.ret_player = "player_o"

(***************************************************************************)
(* C6: set_starting_player given a value outside the StartingPlayer enum   *)
(* raises and assigns nothing, whatever the stored starting_player_value.  *)
(***************************************************************************)
C6_OutsideEnumRaises ==
    [][(result'.op = "set_starting_player"
        /\ result'.value \notin {PLAYER_X, RANDOM, PLAYER_O, NoneValue})
        => (result'.exc = ValueError
            /\ starting_player_value' = starting_player_value)]_vars

(***************************************************************************)
(* C7: construction raises when win_length_k exceeds both dimensions or a  *)
(* dimension is not positive, and no such engine gets a marked cell.       *)
(***************************************************************************)
InfeasibleSetup ==
    \/ (win_length_k > game_rows_m /\ win_length_k > game_cols_n)
    \/ game_rows_m <= 0
    \/ game_cols_n <= 0

C7_InfeasibleSetupRaises ==
    /\ (result.op = "init" /\ InfeasibleSetup) => result.exc # NoExc
    /\ (engine # "new" /\ InfeasibleSetup) => (engine = "failed" /\ Marked(playing_grid) = 0)

(***************************************************************************)
(* C8: get_winning_player raises whenever winning_game is false, and       *)
(* evaluate_board_to_maximising_player raises on every grid with neither   *)
(* a winning line nor a full board.                                        *)
(***************************************************************************)
C8_TerminalOnlyAccessorsRaise ==
    /\ (result.op = "get_winning_player" /\ result.flag = FALSE)
          => result.exc # NoExc
    /\ (/\ result.op = "evaluate_board_to_maximising_player"
        /\ ~HasWinAnywhere(playing_grid, win_length_k)
        /\ ~check_for_draw(playing_grid))
          => result.exc # NoExc

C8_Witness ==
    /\ result.op = "get_winning_player"
    /\ result.flag = FALSE
    /\ result.exc = ValueError
    /\ last_index # NoIndex
    /\ HasWinThrough(playing_grid, last_index, win_length_k)

(***************************************************************************)
(* C9: reset_game_board empties every cell of the live grid and leaves the *)
(* starting player, the win counters, draw_count, the dimensions and       *)
(* win_length_k alone; the mark that follows a reset places the starting   *)
(* player's marking.                                                       *)
(***************************************************************************)
C9_ResetFrame ==
    [][/\ result'.op = "reset_game_board"
            => /\ DOMAIN playing_grid' = CellsOf(game_rows_m, game_cols_n)
               /\ GridEmpty(playing_grid')
               /\ UNCHANGED <<starting_player_value, player_x_wins, player_o_wins,
                              draw_count, game_rows_m, game_cols_n, win_length_k>>
       /\ (result.op = "reset_game_board" /\ result'.op = "mark_board"
           /\ result'.exc = NoExc)
            => playing_grid'[result'.index] = starting_player_value]_vars

C9_Witness ==
    /\ result.op = "reset_game_board"
    /\ GridEmpty(playing_grid)
    /\ Cardinality(DOMAIN playing_grid) = MaxCells
    /\ draw_count = MaxCount
    /\ starting_player_value = BoardMarkingO

(***************************************************************************)
(* C10: win_check_and_location_search reports a win iff k identical        *)
(* non-zero markings lie on k consecutive in-bounds cells along one of the *)
(* four directions through the last-played cell; the location it returns   *)
(* is the k cells of such a line, and it returns no location otherwise.    *)
(***************************************************************************)
C10_DetectorSoundAndComplete ==
    result.op = "win_check_and_location_search"
        => LET idx == result.index
               get_win_location == result.flag
               win == result.ret_flag
               location == result.ret_location
           IN /\ result.exc = NoExc
              /\ win = HasWinThrough(playing_grid, idx, win_length_k)
              /\ (win /\ get_win_location)
                    => IsLineThrough(location, playing_grid, idx, win_length_k)
              /\ ~(win /\ get_win_location) => location = NoLocation

C10_Witness ==
    /\ result.op = "win_check_and_location_search"
    /\ result.flag = TRUE
    /\ result.ret_flag = TRUE
    /\ win_length_k = 2
    /\ playing_grid[result.index] = BoardMarkingO
    /\ Len(result.ret_location) = 2
    /\ result.ret_location[1][1] # result.ret_location[2][1]
    /\ result.ret_location[1][2] # result.ret_location[2][2]

\* some line of k identical markings through cell runs along direction d
WinsAlong(grid, cell, d, k) ==
    \E s \in 0 .. (k - 1) : LineAt(grid, Step(cell, d, -s), d, k)

\* the first direction of `order` along which a line runs through cell
FirstWinning(order, grid, cell, k) ==
    order[CHOOSE i \in DOMAIN order :
             /\ WinsAlong(grid, cell, order[i], k)
             /\ \A j \in 1 .. (i - 1) : ~WinsAlong(grid, cell, order[j], k)]

\* consecutive cells of loc are one step of d apart
LocationAlong(loc, d) ==
    \A j \in 1 .. (Len(loc) - 1) : loc[j + 1] = Step(loc[j], d, 1)

(***************************************************************************)
(* C11 as stated: with get_win_location the returned line is the one of    *)
(* the first winning direction in the order (1,0), (0,1), (1,1), (1,-1),   *)
(* so a move completing both diagonals returns the (1,1) line.             *)
(***************************************************************************)
C11_SouthEastBeforeNorthEast ==
    (/\ result.op = "win_check_and_location_search"
     /\ result.flag = TRUE
     /\ result.ret_flag = TRUE)
        => LocationAlong(result.ret_location,
                         FirstWinning(<< <<1, 0>>, <<0, 1>>, <<1, 1>>, <<1, -1>> >>,
                                      playing_grid, result.index, win_length_k))

(***************************************************************************)
(* C11 amended: with get_win_location the returned line is the one of the  *)
(* first winning direction in the order (1,0), (0,1), (1,-1), (1,1), so a  *)
(* move completing both diagonals returns the (1,-1) line.                 *)
(***************************************************************************)
C11_FirstDirectionInSourceOrder ==
    (/\ result.op = "win_check_and_location_search"
     /\ result.flag = TRUE
     /\ result.ret_flag = TRUE)
        => /\ result.exc = NoExc
           /\ Len(result.ret_location) = win_length_k
           /\ LocationAlong(result.ret_location,
                            FirstWinning(<< <<1, 0>>, <<0, 1>>, <<1, -1>>, <<1, 1>> >>,
                                         playing_grid, result.index, win_length_k))

C11_Witness ==
    /\ result.op = "win_check_and_location_search"
    /\ result.flag = TRUE
    /\ result.ret_flag = TRUE
    /\ win_length_k = 2
    /\ WinsAlong(playing_grid, result.index, <<1, 1>>, win_length_k)
    /\ WinsAlong(playing_grid, result.index, <<1, -1>>, win_length_k)
    /\ ~WinsAlong(playing_grid, result.index, <<1, 0>>, win_length_k)
    /\ ~WinsAlong(playing_grid, result.index, <<0, 1>>, win_length_k)
    /\ LocationAlong(result.ret_location, <<1, -1>>)

(***************************************************************************)
(* C12: check_for_draw(grid) is true iff every cell of the grid is         *)
(* non-empty: false whenever a cell is empty, whether or not a line can    *)
(* still be completed, and true on every full grid, whether or not it      *)
(* holds a winning line.                                                   *)
(***************************************************************************)
C12_DrawIffFull ==
    result.op = "check_for_draw"
        => /\ result.exc = NoExc
           /\ Marked(playing_grid) < Cardinality(DOMAIN playing_grid)
                 => result.ret_flag = FALSE
           /\ Marked(playing_grid) = Cardinality(DOMAIN playing_grid)
                 => result.ret_flag = TRUE

C12_Witness ==
    /\ result.op = "check_for_draw"
    /\ result.ret_flag = TRUE
    /\ Cardinality(DOMAIN playing_grid) >= 4
    /\ Marked(playing_grid) = Cardinality(DOMAIN playing_grid)
    /\ HasWinAnywhere(playing_grid, win_length_k)
    /\ win_length_k >= 2

\* every cell of the grid is marked
Full(grid) == Marked(grid) = Cardinality(DOMAIN grid)

(***************************************************************************)
(* C13: is_terminal(grid) returns a value, and the value is true iff the   *)
(* grid holds a win for the last move or every cell is non-empty; a full   *)
(* grid without a winning line is terminal, a grid with an empty cell and  *)
(* no winning line is not.                                                 *)
(***************************************************************************)
C13_TerminalIffWinOrFull ==
    (result.op = "is_terminal" /\ fixed)
        => /\ result.exc = NoExc
           /\ result.ret_flag = (\/ HasWinAnywhere(playing_grid, win_length_k)
                                 \/ Full(playing_grid))

(***************************************************************************)
(* C14: on a terminal grid the evaluator called with search depth d        *)
(* returns MAX_WIN - d when the maximising player made the winning last    *)
(* mark, MAX_LOSS + d when the opponent made it, and DRAW on a full grid   *)
(* without a winning line.                                                 *)
(***************************************************************************)
C14_TerminalScores ==
    (/\ result.op = "evaluate_board_to_maximising_player"
     /\ fixed
     /\ last_index # NoIndex)
        => LET d == result.value
               won == HasWinThrough(playing_grid, last_index, win_length_k)
               winner == PlayerOf(last_marking)
           IN /\ (won /\ winner = maximising_player)
                    => (result.exc = NoExc /\ result.ret_value = MAX_WIN - d)
              /\ (won /\ winner # maximising_player)
                    => (result.exc = NoExc /\ result.ret_value = MAX_LOSS + d)
              /\ (~won /\ Full(playing_grid))
                    => (result.exc = NoExc /\ result.ret_value = DRAW)

(***************************************************************************)
(* Vocabulary of the claims about the search.                              *)
(***************************************************************************)
MarkingOf(player) == IF player = "player_x" THEN BoardMarkingX ELSE BoardMarkingO

\* the marking that moves next on a grid of alternating turns
NextMarking(grid) ==
    IF CountOf(grid, 1) = CountOf(grid, -1)
    THEN starting_player_value ELSE -starting_player_value

EmptyCells(grid) == {c \in DOMAIN grid : grid[c] = 0}

\* the grid after `marking` is placed on cell c
After(grid, c, marking) == [grid EXCEPT ![c] = marking]

\* the empty cells on which `marking` completes a line of k
WinningCells(grid, marking, k) ==
    {c \in EmptyCells(grid) : HasWinThrough(After(grid, c, marking), c, k)}

\* the lines of k cells holding k - 1 times `marking` and one empty cell
ThreatLines(grid, marking, k) ==
    {line \in (DOMAIN grid) \X Directions :
        /\ \A j \in 0 .. (k - 1) : Step(line[1], line[2], j) \in DOMAIN grid
        /\ Cardinality({j \in 0 .. (k - 1) :
                           grid[Step(line[1], line[2], j)] = marking}) = k - 1
        /\ Cardinality({j \in 0 .. (k - 1) :
                           grid[Step(line[1], line[2], j)] = 0}) = 1}

Terminal(grid, k) == HasWinAnywhere(grid, k) \/ Full(grid)

\* the score of a terminal grid at a depth: the player who moved last has won
\* when the grid holds a line
TerminalScoreOf(grid, depth, k) ==
    IF HasWinAnywhere(grid, k)
    THEN IF -NextMarking(grid) = MarkingOf(maximising_player)
         THEN MAX_WIN - depth ELSE MAX_LOSS + depth
    ELSE DRAW

SetMax(S) == CHOOSE x \in S : \A y \in S : y <= x
SetMin(S) == CHOOSE x \in S : \A y \in S : x <= y

\* the score of the exhaustive search without a cutoff
RECURSIVE UnprunedScore(_, _, _, _)
UnprunedScore(grid, depth, maximisers_move, k) ==
    IF Terminal(grid, k)
    THEN TerminalScoreOf(grid, depth, k)
    ELSE LET scores == {UnprunedScore(After(grid, c, NextMarking(grid)), depth + 1,
                                      ~maximisers_move, k) : c \in EmptyCells(grid)}
         IN IF maximisers_move THEN SetMax(scores) ELSE SetMin(scores)

\* the moves that achieve the score of the exhaustive search at the root
OptimalMoves(grid, maximisers_move, k) ==
    {c \in EmptyCells(grid) :
        UnprunedScore(After(grid, c, NextMarking(grid)), 1, ~maximisers_move, k)
            = UnprunedScore(grid, 0, maximisers_move, k)}

\* the search is asked for the maximising player's move on a 3 x 3, k = 3
\* board that is not over yet
MaximiserToMoveOnThreeThreeThree ==
    /\ result.op = "minimax"
    /\ result.flag = TRUE
    /\ game_rows_m = 3
    /\ game_cols_n = 3
    /\ win_length_k = 3
    /\ ~Terminal(playing_grid, win_length_k)
    /\ NextMarking(playing_grid) = MarkingOf(maximising_player)

(***************************************************************************)
(* C15: on a 3 x 3, k = 3 board with the maximising player to move and an  *)
(* empty cell that completes a line of three for that player, minimax at   *)
(* the root returns a score and a move: the score is MAX_WIN - 1 and the   *)
(* move is a cell that completes such a line.                              *)
(***************************************************************************)
C15_WinningMoveReturned ==
    (/\ MaximiserToMoveOnThreeThreeThree
     /\ WinningCells(playing_grid, MarkingOf(maximising_player), win_length_k) # {})
        => /\ result.exc = NoExc
           /\ result.ret_value = MAX_WIN - 1
           /\ Len(result.ret_location) = 1
           /\ result.ret_location[1]
                 \in WinningCells(playing_grid, MarkingOf(maximising_player),
                                  win_length_k)

(***************************************************************************)
(* C16: on a 3 x 3, k = 3 board with the maximising player to move, with   *)
(* exactly one line holding two opposing markings and an empty third cell  *)
(* and no immediately winning cell for the maximising player, minimax      *)
(* returns the empty cell of that line.                                    *)
(***************************************************************************)
C16_BlockingMoveReturned ==
    (/\ MaximiserToMoveOnThreeThreeThree
     /\ WinningCells(playing_grid, MarkingOf(maximising_player), win_length_k) = {}
     /\ Cardinality(ThreatLines(playing_grid, -MarkingOf(maximising_player),
                                win_length_k)) = 1)
        => /\ result.exc = NoExc
           /\ Len(result.ret_location) = 1
           /\ WinningCells(playing_grid, -MarkingOf(maximising_player), win_length_k)
                 = {result.ret_location[1]}

(***************************************************************************)
(* C17: on a non-terminal board minimax with the alpha-beta cutoff returns *)
(* the score of the exhaustive search without the cutoff, and a move that  *)
(* achieves that score in the exhaustive search.                           *)
(***************************************************************************)
C17_PruningKeepsScoreAndMove ==
    (/\ result.op = "minimax"
     /\ ~Terminal(playing_grid, win_length_k))
        => /\ result.exc = NoExc
           /\ result.ret_value
                 = UnprunedScore(playing_grid, 0, result.flag, win_length_k)
           /\ Len(result.ret_location) = 1
           /\ result.ret_location[1]
                 \in OptimalMoves(playing_grid, result.flag, win_length_k)

C20_ScoreOfHypotheticalGridOnly ==
    (/\ result.op = "evaluate_hypothetical_board"
     /\ result.ret_grid # playing_grid
     /\ Terminal(result.ret_grid, win_length_k))
        => /\ result.exc = NoExc
           /\ result.ret_value
                 = TerminalScoreOf(result.ret_grid, result.value, win_length_k)

(***************************************************************************)
(* C19: on every grid over {0, +1, -1}, square or not and with either      *)
(* dimension below k or not, _whole_board_search is truthy iff some row,   *)
(* column or diagonal holds k consecutive identical markings; and for      *)
(* every marked cell without which the grid holds no winning line (the     *)
(* last mark of a game not won before it) it is truthy iff                 *)
(* win_check_and_location_search at that cell reports a win.               *)
(***************************************************************************)
C19_WholeBoardAgreesWithLastMove ==
    result.op = "whole_board_search"
        => /\ result.exc = NoExc
           /\ (result.ret_value > 0) = HasWinAnywhere(playing_grid, win_length_k)
           /\ \A last_played_index \in DOMAIN playing_grid :
                 (/\ playing_grid[last_played_index] # 0
                  /\ ~HasWinAnywhere(After(playing_grid, last_played_index, 0),
                                     win_length_k))
                    => (result.ret_value > 0)
                          = win_check_and_location_search(last_played_index, FALSE,
                                                          playing_grid).ret[1]

C19_Witness ==
    /\ result.op = "whole_board_search"
    /\ result.ret_value > 0
    /\ game_rows_m = 2
    /\ game_cols_n = 3
    /\ win_length_k = 2
    /\ ~WinsAlong(playing_grid, <<0, 1>>, <<1, 0>>, win_length_k)
    /\ ~WinsAlong(playing_grid, <<0, 1>>, <<0, 1>>, win_length_k)
    /\ ~WinsAlong(playing_grid, <<0, 1>>, <<1, 1>>, win_length_k)
    /\ WinsAlong(playing_grid, <<0, 1>>, <<1, -1>>, win_length_k)
    /\ ~HasWinAnywhere(After(playing_grid, <<0, 1>>, 0), win_length_k)
====
